---- MODULE Spec2Model ----
(***************************************************************************)
(* The monitoring scheduler and check pipeline of website-monitor.         *)
(*                                                                         *)
(* MonitoringEngine (backend/src/monitoring/MonitoringEngine.ts, the       *)
(* class at lines 179-433): one self-rescheduling setTimeout chain per     *)
(* scheduleMonitoring call, a setInterval registry refresh, the check      *)
(* pipeline performCheck -> saveResult -> checkAlerts -> sendAlert, every  *)
(* await being a point where other callbacks interleave.                   *)
(*                                                                         *)
(* The uptime check is also modelled on its own, as performCheck of the    *)
(* engine and as checkUptime of MonitoringService (unnamed/part_009).      *)
(*                                                                         *)
(* Time is a discrete clock of TickMs per tick; a timer carries the ticks  *)
(* that remain before it may fire and may fire late, never early.          *)
(***************************************************************************)
EXTENDS Integers, Sequences, FiniteSets, TLC

(* ------------------------------ bounds --------------------------------- *)

NumTargets == 2
MaxChains == 2
MaxRefresh == 2
MaxLoads == 1
MaxResults == 1
MaxCalls == 2
MaxIntervalChecks == 1
MaxLiveIntervals == 1
MaxUsers == 2
MaxSockets == 3

Targets == 1..NumTargets
Slots == 1..MaxChains

(* ---------------------------- constants -------------------------------- *)

TickMs == 5 * 60 * 1000

RefreshMs == 5 * 60 * 1000

WindowMs == 15 * 60 * 1000

CheckIntervals == {300, 600}

DefaultInterval == 300

Ticks(ms) == (ms + TickMs - 1) \div TickMs

NoEntry == 0
Stale == -1

VARIABLES
    isRunning,        \* MonitoringEngine.isRunning
    activeChecks,     \* MonitoringEngine.activeChecks: target -> timer handle
    chains,           \* the checkWebsite closures: target -> slot -> chain
    refreshTimers,    \* the setInterval handles created by start()
    loads,            \* loadAndStartMonitoring calls awaiting their query
    monitor_configs,  \* rows of monitor_configs JOIN websites
    alert_configs,    \* rows of alert_configs, per target
    alert_history,    \* rows of alert_history inside the trailing window
    monitor_results,  \* number of monitor_results rows per target
    unscheduled,      \* history: target absent from a completed refresh
    outcome,          \* what the fetch of one uptime check ended in
    result,           \* the status an uptime check gave that outcome
    manual,           \* the checkWebsite(id) call in progress and those returned
    serviceIsRunning, \* MonitoringService.isRunning
    monitoringIntervals, \* MonitoringService.monitoringIntervals: target -> handle
    liveIntervals,    \* the setInterval handles not cleared, per target
    startup,          \* the startMonitoring call in progress
    checks,           \* the performWebsiteCheck calls in progress
    lastCheck,        \* history: what the last completed check stored and sent
    webSocketService  \* MonitoringService.webSocketService is set

engineVars == <<isRunning, activeChecks, chains, refreshTimers, loads>>
dbVars == <<monitor_configs, alert_configs, alert_history, monitor_results>>
probeVars == <<outcome, result>>
manualVars == <<manual>>
serviceVars == <<serviceIsRunning, monitoringIntervals, liveIntervals, startup,
                 checks, lastCheck, webSocketService>>
vars == <<isRunning, activeChecks, chains, refreshTimers, loads,
          monitor_configs, alert_configs, alert_history, monitor_results,
          unscheduled, outcome, result, manual, serviceIsRunning,
          monitoringIntervals, liveIntervals, startup, checks, lastCheck,
          webSocketService>>

(* ------------------------- the check pipeline -------------------------- *)

\* What one fetch can end in: a response with a status code after ms
\* milliseconds, the abort fired by the timeout, or a network error.
Codes == {200, 301, 404, 503}
Elapsed == {100, 6000}
Outcomes == [kind : {"response"}, code : Codes, ms : Elapsed]
            \cup [kind : {"abort", "network"}, code : {0}, ms : Elapsed]

ResponseOk(code) == code >= 200 /\ code <= 299

\* MonitoringEngine.performCheck: the status of one uptime check.
PerformCheckStatus(o) ==
    IF o.kind = "response"
    THEN IF ResponseOk(o.code) THEN "up"
         ELSE IF o.code >= 500 THEN "down" ELSE "degraded"
    ELSE "down"

\* MonitoringService.checkUptime: axios rejects a status of 500 and above
\* (validateStatus), which lands in the catch like a network failure.
SlowMs == 5000

CheckUptimeStatus(o) ==
    IF o.kind = "response" /\ o.code < 500
    THEN IF o.code >= 200 /\ o.code < 300
         THEN IF o.ms > SlowMs THEN "degraded" ELSE "up"
         ELSE IF o.code >= 400 /\ o.code < 500 THEN "degraded" ELSE "down"
    ELSE "down"

\* The outcomes an uptime check is probed with, on both sides of the
\* slow-response threshold and of every class of status code.
ProbeCodes == {200, 204, 301, 304, 404, 429, 500, 503}
ProbeElapsed == {100, 199, 200, 499, 500, 999, 1000, 1999, 2000, 2999, 3000,
                 4999, 5000, 5001, 10000, 10001, 15000, 15001, 30000}

\* setTimeout(() => controller.abort(), config.timeout * 1000): the abort
\* ends the fetch at the timeout of the config, or a little later.
DefaultTimeout == 30

TimeoutMs(timeout) == timeout * 1000

AbortElapsed == {TimeoutMs(DefaultTimeout), TimeoutMs(DefaultTimeout) + 50}

ProbeOutcomes == [kind : {"response"}, code : ProbeCodes, ms : ProbeElapsed]
                 \cup [kind : {"abort"}, code : {0}, ms : AbortElapsed]
                 \cup [kind : {"network"}, code : {0}, ms : ProbeElapsed]

NoOutcome == [kind |-> "none", code |-> 0, ms |-> 0]

\* A field of a result that is undefined (a NULL column).
Absent == -1
NoMessage == ""

NoResult == [by |-> "none", status |-> "none", responseTime |-> 0,
             statusCode |-> Absent, errorMessage |-> NoMessage,
             performanceScore |-> Absent]

\* MonitoringEngine.calculatePerformanceScore
CalculatePerformanceScore(responseTime, statusCode) ==
    IF statusCode >= 500 THEN 0
    ELSE IF statusCode >= 400 THEN 25
    ELSE IF responseTime < 200 THEN 100
    ELSE IF responseTime < 500 THEN 90
    ELSE IF responseTime < 1000 THEN 80
    ELSE IF responseTime < 2000 THEN 70
    ELSE IF responseTime < 3000 THEN 60
    ELSE IF responseTime < 5000 THEN 50
    ELSE 30

ErrorMessageRaw(o) ==
    IF o.kind = "abort" THEN "This operation was aborted" ELSE "fetch failed"

\* error.name === 'AbortError' ? 'Request timeout' : error.message
ErrorMessage(o) ==
    IF o.kind = "abort" THEN "Request timeout" ELSE "fetch failed"

\* MonitoringEngine.performCheck: the result of one uptime check.
PerformCheckResult(o) ==
    IF o.kind = "response"
    THEN [by |-> "performCheck", status |-> PerformCheckStatus(o),
          responseTime |-> o.ms, statusCode |-> o.code,
          errorMessage |-> NoMessage,
          performanceScore |-> CalculatePerformanceScore(o.ms, o.code)]
    ELSE [by |-> "performCheck", status |-> "down",
          responseTime |-> o.ms, statusCode |-> Absent,
          errorMessage |-> ErrorMessage(o),
          performanceScore |-> Absent]

\* MonitoringService.checkUptime: the message of the axios error.
AxiosMessage(o) ==
    IF o.kind = "response" THEN "Request failed with status code"
    ELSE IF o.kind = "abort" THEN "timeout of 30000ms exceeded"
    ELSE "connect failed"

CheckUptimeResult(o) ==
    IF o.kind = "response" /\ o.code < 500
    THEN [by |-> "checkUptime", status |-> CheckUptimeStatus(o),
          responseTime |-> o.ms, statusCode |-> o.code,
          errorMessage |-> NoMessage, performanceScore |-> Absent]
    ELSE [by |-> "checkUptime", status |-> "down",
          responseTime |-> o.ms, statusCode |-> Absent,
          errorMessage |-> AxiosMessage(o), performanceScore |-> Absent]

FreeChain == [pc |-> "free", check_interval |-> 0, rem |-> 0,
              status |-> "none", rows |-> <<>>, idx |-> 0,
              stopped |-> FALSE, clean |-> FALSE]

InFlight == {"fetch", "save", "alertConfigs", "recent", "website",
             "insertSent", "insertFailed"}
AlertStages == {"alertConfigs", "recent", "website", "insertSent",
                "insertFailed"}

FreeSlots(cs) == {k \in Slots : cs[k].pc = "free"}
LowestFree(cs) == CHOOSE k \in FreeSlots(cs) : \A j \in FreeSlots(cs) : k <= j

Min(a, b) == IF a < b THEN a ELSE b

\* The query of loadAndStartMonitoring: the enabled configs joined to
\* their websites.
EnabledRows == {t \in Targets : monitor_configs[t].present
                                /\ monitor_configs[t].enabled}

(* --------------------------- the scheduler ----------------------------- *)

TimerDelaySeconds(check_interval) == check_interval

\* setTimeout(checkWebsite, config.check_interval * 1000)
TimerDelayMs(check_interval) == check_interval * 1000

\* The end of checkWebsite: re-arm while the engine runs.  ok records that
\* alert evaluation ran to its end without an exception, a clock tick or
\* another tick of the same target beside it.
Completed(ch, ok) ==
    IF isRunning
    THEN [FreeChain EXCEPT !.pc = "timer",
                           !.check_interval = ch.check_interval,
                           !.rem = Ticks(TimerDelayMs(ch.check_interval)),
                           !.stopped = ch.stopped,
                           !.rows = ch.rows,
                           !.clean = ok]
    ELSE FreeChain

\* chains and activeChecks after chain k of target t became ch.
Becomes(t, k, ch) ==
    /\ chains' = [chains EXCEPT ![t][k] = ch]
    /\ activeChecks' = [activeChecks EXCEPT
                          ![t] = IF ch.pc = "timer" THEN k ELSE @]

\* The chains of t after clearTimeout(activeChecks.get(t)).
Cleared(t) ==
    IF activeChecks[t] \in Slots
    THEN [chains[t] EXCEPT ![activeChecks[t]] = FreeChain]
    ELSE chains[t]

\* scheduleMonitoring(config): cancel the timer the map holds, then run
\* checkWebsite at once, which returns when the engine is not running and
\* otherwise awaits its fetch.  The map is written at re-arm only.
Scheduled(t) ==
    IF isRunning
    THEN [Cleared(t) EXCEPT ![LowestFree(Cleared(t))] =
            [FreeChain EXCEPT !.pc = "fetch",
                              !.check_interval =
                                  monitor_configs[t].check_interval]]
    ELSE Cleared(t)

RemoveAt(s, i) == [j \in 1..(Len(s) - 1) |-> IF j < i THEN s[j] ELSE s[j + 1]]

StartLoads == Cardinality({i \in 1..Len(loads) : loads[i] = "start"})

\* start(): returns when running; otherwise sets isRunning and awaits
\* loadAndStartMonitoring, whose query is then in flight.
Start ==
    /\ ~isRunning
    /\ Len(loads) < MaxLoads
    /\ Len(refreshTimers) + StartLoads < MaxRefresh
    /\ isRunning' = TRUE
    /\ loads' = Append(loads, "start")
    /\ UNCHANGED <<activeChecks, chains, refreshTimers, dbVars, unscheduled,
                   probeVars, manualVars, serviceVars>>

\* A load that rescheduled the rows of the table although its query threw.
ConfigsEvenIfThrown(ok) == EnabledRows

\* The configs the loop of loadAndStartMonitoring walks: the rows of the
\* query, none when the query throws and the catch only logs.
Configs(ok) == IF ok THEN EnabledRows ELSE {}

\* The query of loadAndStartMonitoring returns (ok) or throws: every row is
\* scheduled in one synchronous loop; start() then creates its setInterval.
LoadDone(i, ok) ==
    /\ i \in 1..Len(loads)
    /\ LET rows == Configs(ok)
       IN /\ isRunning => \A t \in rows : FreeSlots(Cleared(t)) # {}
          /\ chains' = [t \in Targets |->
                          IF t \in rows THEN Scheduled(t) ELSE chains[t]]
          /\ activeChecks' = [t \in Targets |->
                                IF t \in rows /\ activeChecks[t] \in Slots
                                THEN Stale ELSE activeChecks[t]]
          /\ unscheduled' = [t \in Targets |->
                               IF ok THEN t \notin rows ELSE unscheduled[t]]
    /\ refreshTimers' = IF loads[i] = "start"
                        THEN Append(refreshTimers, Ticks(RefreshMs))
                        ELSE refreshTimers
    /\ loads' = RemoveAt(loads, i)
    /\ UNCHANGED <<isRunning, dbVars, probeVars, manualVars, serviceVars>>

\* A setInterval handle of start() fires: loadAndStartMonitoring is called
\* and the interval runs again.
RefreshFire(i) ==
    /\ i \in 1..Len(refreshTimers)
    /\ refreshTimers[i] = 0
    /\ Len(loads) < MaxLoads
    /\ refreshTimers' = [refreshTimers EXCEPT ![i] = Ticks(RefreshMs)]
    /\ loads' = Append(loads, "refresh")
    /\ UNCHANGED <<isRunning, activeChecks, chains, dbVars, unscheduled,
                   probeVars, manualVars, serviceVars>>

\* stop(): clears the timers the map holds and the map; the refresh
\* interval and the checks in flight are left alone.
Stop ==
    /\ isRunning' = FALSE
    /\ chains' = [t \in Targets |-> [k \in Slots |->
                    IF activeChecks[t] = k THEN FreeChain
                    ELSE IF chains[t][k].pc \in InFlight
                         THEN [chains[t][k] EXCEPT !.stopped = TRUE]
                         ELSE chains[t][k]]]
    /\ activeChecks' = [t \in Targets |-> NoEntry]
    /\ UNCHANGED <<refreshTimers, loads, dbVars, unscheduled,
                   probeVars, manualVars, serviceVars>>

\* A setTimeout of a chain fires: checkWebsite returns at once when the
\* engine is not running, and otherwise awaits the fetch of performCheck.
TimerFire(t, k) ==
    /\ chains[t][k].pc = "timer"
    /\ chains[t][k].rem = 0
    /\ chains' = [chains EXCEPT ![t][k] =
                    IF isRunning
                    THEN [FreeChain EXCEPT
                            !.pc = "fetch",
                            !.check_interval = chains[t][k].check_interval]
                    ELSE FreeChain]
    /\ activeChecks' = [activeChecks EXCEPT ![t] = IF @ = k THEN Stale ELSE @]
    /\ UNCHANGED <<isRunning, refreshTimers, loads, dbVars, unscheduled,
                   probeVars, manualVars, serviceVars>>

\* The fetch of performCheck ends in o; saveResult awaits its INSERT.
FetchDone(t, k, o) ==
    /\ chains[t][k].pc = "fetch"
    /\ Becomes(t, k, [chains[t][k] EXCEPT !.pc = "save",
                                          !.status = PerformCheckStatus(o)])
    /\ UNCHANGED <<isRunning, refreshTimers, loads, dbVars, unscheduled,
                   probeVars, manualVars, serviceVars>>

\* History for the suppression claims: alert evaluation of t starts with no
\* other tick of t evaluating alerts and no two records of one alert type
\* inside the window.
Undisturbed(t) ==
    /\ \A i \in Slots : chains[t][i].pc \notin AlertStages
    /\ \A i, j \in 1..Len(alert_history) :
          (/\ alert_history[i].website_id = t
           /\ alert_history[j].website_id = t
           /\ alert_history[i].alert_type = alert_history[j].alert_type
           /\ alert_history[i].age * TickMs < 15 * 60 * 1000
           /\ alert_history[j].age * TickMs < 15 * 60 * 1000)
          => i = j

\* The INSERT of saveResult returns (ok) or throws and is logged; then
\* checkAlerts returns at once for an up result and otherwise awaits its
\* SELECT of the enabled alert_configs.
SaveDone(t, k, ok) ==
    /\ chains[t][k].pc = "save"
    /\ ok => monitor_configs[t].present
    /\ monitor_results' = [monitor_results EXCEPT
                             ![t] = IF ok THEN Min(@ + 1, MaxResults) ELSE @]
    /\ IF chains[t][k].status = "up"
       THEN Becomes(t, k, Completed(chains[t][k], FALSE))
       ELSE /\ chains' = [chains EXCEPT ![t] = [j \in Slots |->
                   IF j = k
                   THEN [@[j] EXCEPT !.pc = "alertConfigs",
                                     !.clean = Undisturbed(t)]
                   ELSE IF @[j].pc \in AlertStages
                        THEN [@[j] EXCEPT !.clean = FALSE]
                        ELSE @[j]]]
            /\ UNCHANGED activeChecks
    /\ UNCHANGED <<isRunning, refreshTimers, loads, monitor_configs,
                   alert_configs, alert_history, unscheduled,
                   probeVars, manualVars, serviceVars>>

(* ---------------------------- checkAlerts ------------------------------ *)

EnabledRules(t) == SelectSeq(alert_configs[t], LAMBDA r : r.enabled)

\* The recentAlert query: a row of this target and alert type sent inside
\* the trailing window.
InWindowInclusive(row) == row.age * TickMs <= WindowMs

InWindow(row) == row.age * TickMs < WindowMs

RecentAlert(t, alert_type) ==
    \E i \in 1..Len(alert_history) :
        /\ alert_history[i].website_id = t
        /\ alert_history[i].alert_type = alert_type
        /\ InWindow(alert_history[i])

\* A sendAlert whose catch wrote the same row as its try.
HistoryRowSent(t, rule, status) ==
    [website_id |-> t, alert_type |-> rule.alert_type,
     destination |-> rule.destination, status |-> "sent", age |-> 0]

\* The row an INSERT of sendAlert writes.
HistoryRow(t, rule, status) ==
    [website_id |-> t, alert_type |-> rule.alert_type,
     destination |-> rule.destination, status |-> status, age |-> 0]

\* The for loop of checkAlerts moves to its next row, or checkAlerts
\* returns and checkWebsite completes.
NextRule(ch) ==
    IF ch.idx < Len(ch.rows)
    THEN [ch EXCEPT !.pc = "recent", !.idx = @ + 1]
    ELSE Completed(ch, ch.clean)

\* The SELECT of the enabled alert_configs returns.
AlertConfigsDone(t, k) ==
    /\ chains[t][k].pc = "alertConfigs"
    /\ LET ch == [chains[t][k] EXCEPT !.rows = EnabledRules(t), !.idx = 0]
       IN Becomes(t, k, NextRule(ch))
    /\ UNCHANGED <<isRunning, refreshTimers, loads, dbVars, unscheduled,
                   probeVars, manualVars, serviceVars>>

\* The recentAlert query of the current row returns: sendAlert is called
\* when it found nothing, and awaits its SELECT of the website.
RecentDone(t, k) ==
    /\ chains[t][k].pc = "recent"
    /\ LET ch == chains[t][k]
       IN Becomes(t, k, IF RecentAlert(t, ch.rows[ch.idx].alert_type)
                        THEN NextRule(ch)
                        ELSE [ch EXCEPT !.pc = "website"])
    /\ UNCHANGED <<isRunning, refreshTimers, loads, dbVars, unscheduled,
                   probeVars, manualVars, serviceVars>>

\* sendAlert has its website row: createAlertMessage throws on a row that
\* is gone (outside the try of sendAlert); otherwise the delivery and the
\* INSERT of the 'sent' row are awaited inside the try.
WebsiteDone(t, k) ==
    /\ chains[t][k].pc = "website"
    /\ Becomes(t, k, IF monitor_configs[t].present
                     THEN [chains[t][k] EXCEPT !.pc = "insertSent"]
                     ELSE Completed(chains[t][k], FALSE))
    /\ UNCHANGED <<isRunning, refreshTimers, loads, dbVars, unscheduled,
                   probeVars, manualVars, serviceVars>>

\* The try of sendAlert ends: the 'sent' row is written (ok), or the
\* delivery or the INSERT threw and the catch awaits the 'failed' INSERT.
InsertSentDone(t, k, ok) ==
    /\ chains[t][k].pc = "insertSent"
    /\ LET ch == chains[t][k]
       IN IF ok
          THEN /\ alert_history' = Append(alert_history,
                                     HistoryRow(t, ch.rows[ch.idx], "sent"))
               /\ Becomes(t, k, NextRule(ch))
          ELSE /\ alert_history' = alert_history
               /\ Becomes(t, k, [ch EXCEPT !.pc = "insertFailed"])
    /\ UNCHANGED <<isRunning, refreshTimers, loads, monitor_configs,
                   alert_configs, monitor_results, unscheduled,
                   probeVars, manualVars, serviceVars>>

\* The INSERT of the 'failed' row returns (ok), or throws out of sendAlert
\* into the catch of checkAlerts, which ends the loop.
InsertFailedDone(t, k, ok) ==
    /\ chains[t][k].pc = "insertFailed"
    /\ LET ch == chains[t][k]
       IN IF ok
          THEN /\ alert_history' = Append(alert_history,
                                     HistoryRow(t, ch.rows[ch.idx], "failed"))
               /\ Becomes(t, k, NextRule(ch))
          ELSE /\ alert_history' = alert_history
               /\ Becomes(t, k, Completed(ch, FALSE))
    /\ UNCHANGED <<isRunning, refreshTimers, loads, monitor_configs,
                   alert_configs, monitor_results, unscheduled,
                   probeVars, manualVars, serviceVars>>

\* A SELECT of checkAlerts or sendAlert throws: the catch of checkAlerts
\* logs it and checkWebsite completes.
QueryThrow(t, k) ==
    /\ chains[t][k].pc \in {"alertConfigs", "recent", "website"}
    /\ Becomes(t, k, Completed(chains[t][k], FALSE))
    /\ UNCHANGED <<isRunning, refreshTimers, loads, dbVars, unscheduled,
                   probeVars, manualVars, serviceVars>>

(* ------------------------------ the clock ------------------------------ *)

Dec(n) == IF n > 0 THEN n - 1 ELSE 0

Aged(h) ==
    LET older == [i \in 1..Len(h) |-> [h[i] EXCEPT !.age = @ + 1]]
    IN SelectSeq(older, InWindow)

StoreAwaits == {"save"} \cup AlertStages

\* One tick of the clock: every pending timer is a tick nearer, and every
\* alert_history row a tick older (a row that left the window is read by no
\* query any more and leaves the model).  A tick is five minutes and a
\* round trip to the store far less, so the clock moves between the store's
\* round trips; a fetch may last across ticks.
Tick ==
    /\ loads = <<>>
    /\ \A t \in Targets, k \in Slots : chains[t][k].pc \notin StoreAwaits
    /\ chains' = [t \in Targets |-> [k \in Slots |->
                    [chains[t][k] EXCEPT !.rem = Dec(@), !.clean = FALSE]]]
    /\ refreshTimers' = [i \in 1..Len(refreshTimers) |-> Dec(refreshTimers[i])]
    /\ alert_history' = Aged(alert_history)
    /\ UNCHANGED <<isRunning, activeChecks, loads, monitor_configs,
                   alert_configs, monitor_results, unscheduled,
                   probeVars, manualVars, serviceVars>>

(* ------------------------- the target registry ------------------------- *)

\* monitor_configs.enabled of a target is set to false.
DisableConfig(t) ==
    /\ monitor_configs[t].present
    /\ monitor_configs[t].enabled
    /\ monitor_configs' = [monitor_configs EXCEPT ![t].enabled = FALSE]
    /\ unscheduled' = [unscheduled EXCEPT ![t] = FALSE]
    /\ UNCHANGED <<engineVars, alert_configs, alert_history, monitor_results,
                   probeVars, manualVars, serviceVars>>

\* monitor_configs.enabled of a target is set to true.
EnableConfig(t) ==
    /\ monitor_configs[t].present
    /\ ~monitor_configs[t].enabled
    /\ monitor_configs' = [monitor_configs EXCEPT ![t].enabled = TRUE]
    /\ unscheduled' = [unscheduled EXCEPT ![t] = FALSE]
    /\ UNCHANGED <<engineVars, alert_configs, alert_history, monitor_results,
                   probeVars, manualVars, serviceVars>>

\* deleteWebsite: the websites row goes, and by ON DELETE CASCADE its
\* monitor_configs, alert_configs, alert_history and monitor_results rows.
DeleteWebsite(t) ==
    /\ monitor_configs[t].present
    /\ monitor_configs' = [monitor_configs EXCEPT ![t].present = FALSE,
                                                  ![t].enabled = FALSE]
    /\ alert_configs' = [alert_configs EXCEPT ![t] = <<>>]
    /\ alert_history' = SelectSeq(alert_history,
                                  LAMBDA r : r.website_id # t)
    /\ monitor_results' = [monitor_results EXCEPT ![t] = 0]
    /\ unscheduled' = [unscheduled EXCEPT ![t] = FALSE]
    /\ UNCHANGED <<engineVars, probeVars, manualVars, serviceVars>>

(* --------------------------- specifications ---------------------------- *)

\* The engine after construction, no target registered.
EngineIdle ==
    /\ isRunning = FALSE
    /\ activeChecks = [t \in Targets |-> NoEntry]
    /\ chains = [t \in Targets |-> [k \in Slots |-> FreeChain]]
    /\ refreshTimers = <<>>
    /\ loads = <<>>
    /\ alert_history = <<>>
    /\ monitor_results = [t \in Targets |-> 0]
    /\ unscheduled = [t \in Targets |-> FALSE]

\* Who awaits a performWebsiteCheck: startWebsiteMonitoring called by the
\* loop of startMonitoring ("start") or by addWebsiteMonitoring ("add"), or
\* an interval callback.
Owners == {"start", "add", "interval"}

\* The owners that are calls of startWebsiteMonitoring.
Starters == {"start", "add"}

\* daysUntilExpiry: null
NullDays == -100000

\* A result without TLS information.
NoTLS == [by |-> "none", certificateValid |-> FALSE,
          daysUntilExpiry |-> NullDays, issuer |-> "null",
          securityGrade |-> "none", certificateChainValid |-> FALSE]

NoServiceResult == [status |-> "none", responseTime |-> 0, statusCode |-> Absent,
                    errorMessage |-> NoMessage, sslInfo |-> NoTLS,
                    performanceMetrics |-> FALSE,
                    performanceScore |-> Absent]

\* What Promise.allSettled holds for one of the three checks.
Fulfilled(value) == [status |-> "fulfilled", value |-> value]
Rejected(value) == [status |-> "rejected", value |-> value]

\* The three checks of performWebsiteCheck not settled yet.
NoSettled == [uptime |-> NoResult, ssl |-> Rejected(NoTLS),
              performance |-> FALSE]

FreeCheck == [pc |-> "free", settled |-> NoSettled,
              res |-> NoServiceResult, alerts |-> <<>>,
              inserted |-> FALSE, published |-> FALSE,
              alertRows |-> 0, alertEvents |-> 0, removed |-> FALSE]

NoStartup == [pc |-> "idle", rows |-> <<>>, idx |-> 0]

NoCheckYet == [websiteId |-> 0, inserted |-> FALSE, published |-> FALSE,
               alertRows |-> 0, alertEvents |-> 0]

\* MonitoringService after construction, startMonitoring not called.
ServiceIdle ==
    /\ serviceIsRunning = FALSE
    /\ monitoringIntervals = [t \in Targets |-> "none"]
    /\ liveIntervals = [t \in Targets |-> 0]
    /\ startup = NoStartup
    /\ checks = [t \in Targets |-> [o \in Owners |-> FreeCheck]]
    /\ lastCheck = NoCheckYet

EngineInit ==
    /\ EngineIdle
    /\ ServiceIdle
    /\ webSocketService = FALSE

NoManual == [pc |-> "idle", websiteId |-> 0, res |-> NoResult,
             returned |-> <<>>]

\* No uptime check is being probed and checkWebsite(id) has not been called.
NoProbe ==
    /\ outcome = NoOutcome
    /\ result = NoResult
    /\ manual = NoManual

NoConfig == [present |-> FALSE, enabled |-> FALSE, check_interval |-> 0]

\* Target 1 registered with an enabled config and no alert rule.
Init ==
    /\ EngineInit
    /\ NoProbe
    /\ \E ci \in CheckIntervals :
         monitor_configs = [t \in Targets |->
            IF t = 1 THEN [present |-> TRUE, enabled |-> TRUE,
                           check_interval |-> ci]
            ELSE NoConfig]
    /\ alert_configs = [t \in Targets |-> <<>>]

Next ==
    \/ Start
    \/ Stop
    \/ \E i \in 1..MaxLoads, ok \in BOOLEAN : LoadDone(i, ok)
    \/ \E i \in 1..MaxRefresh : RefreshFire(i)
    \/ \E t \in Targets, k \in Slots : TimerFire(t, k)
    \/ \E t \in Targets, k \in Slots, o \in Outcomes : FetchDone(t, k, o)
    \/ \E t \in Targets, k \in Slots, ok \in BOOLEAN : SaveDone(t, k, ok)
    \/ \E t \in Targets, k \in Slots : AlertConfigsDone(t, k)
    \/ \E t \in Targets, k \in Slots : QueryThrow(t, k)
    \/ Tick
    \/ \E t \in Targets : DisableConfig(t)
    \/ \E t \in Targets : EnableConfig(t)
    \/ \E t \in Targets : DeleteWebsite(t)

Spec == Init /\ [][Next]_vars

\* The scheduling of the event loop: a due timer fires, an awaited query or
\* fetch settles (the fetch is aborted at its timeout), and time passes.
Fairness ==
    /\ WF_vars(Tick)
    /\ WF_vars(\E i \in 1..MaxLoads, ok \in BOOLEAN : LoadDone(i, ok))
    /\ \A t \in Targets, k \in Slots :
          /\ WF_vars(TimerFire(t, k))
          /\ WF_vars(\E o \in Outcomes : FetchDone(t, k, o))
          /\ WF_vars(\E ok \in BOOLEAN : SaveDone(t, k, ok))
          /\ WF_vars(AlertConfigsDone(t, k) \/ QueryThrow(t, k))

\* The engine started and left running, the registry unchanged.
NextRunning ==
    \/ Start
    \/ \E i \in 1..MaxLoads, ok \in BOOLEAN : LoadDone(i, ok)
    \/ \E i \in 1..MaxRefresh : RefreshFire(i)
    \/ \E t \in Targets, k \in Slots : TimerFire(t, k)
    \/ \E t \in Targets, k \in Slots, o \in Outcomes : FetchDone(t, k, o)
    \/ \E t \in Targets, k \in Slots, ok \in BOOLEAN : SaveDone(t, k, ok)
    \/ \E t \in Targets, k \in Slots : AlertConfigsDone(t, k)
    \/ \E t \in Targets, k \in Slots : QueryThrow(t, k)
    \/ Tick

SpecRunning == Init /\ [][NextRunning]_vars

\* The engine started and stopped under the scheduling of the event loop,
\* the registry unchanged.
NextEngine ==
    \/ NextRunning
    \/ Stop

SpecFair == Init /\ [][NextEngine]_vars /\ Fairness

\* The engine left running while targets are disabled, enabled and deleted.
NextRegistry ==
    \/ NextRunning
    \/ \E t \in Targets : DisableConfig(t)
    \/ \E t \in Targets : EnableConfig(t)
    \/ \E t \in Targets : DeleteWebsite(t)

SpecRegistry == Init /\ [][NextRegistry]_vars

\* The alert rules a target is registered with: one rule, two rules of the
\* same channel type (createWebsite writes one 'email' row per address), two
\* of different types, and a disabled rule beside an enabled one.
Rule(alert_type, destination, enabled) ==
    [alert_type |-> alert_type, destination |-> destination,
     enabled |-> enabled]

AlertRuleSets ==
    { <<Rule("email", "a", TRUE)>>,
      <<Rule("email", "a", TRUE), Rule("email", "b", TRUE)>>,
      <<Rule("email", "a", TRUE), Rule("sms", "b", TRUE)>>,
      <<Rule("email", "a", FALSE), Rule("sms", "b", TRUE)>> }

\* Target 1 registered with the default config and alert rules.
InitAlert ==
    /\ EngineInit
    /\ NoProbe
    /\ monitor_configs = [t \in Targets |->
          IF t = 1 THEN [present |-> TRUE, enabled |-> TRUE,
                         check_interval |-> DefaultInterval]
          ELSE NoConfig]
    /\ \E rules \in AlertRuleSets :
          alert_configs = [t \in Targets |-> IF t = 1 THEN rules ELSE <<>>]

NextAlert ==
    \/ Start
    \/ \E i \in 1..MaxLoads, ok \in BOOLEAN : LoadDone(i, ok)
    \/ \E i \in 1..MaxRefresh : RefreshFire(i)
    \/ \E t \in Targets, k \in Slots : TimerFire(t, k)
    \/ \E t \in Targets, k \in Slots, o \in Outcomes : FetchDone(t, k, o)
    \/ \E t \in Targets, k \in Slots, ok \in BOOLEAN : SaveDone(t, k, ok)
    \/ \E t \in Targets, k \in Slots : AlertConfigsDone(t, k)
    \/ \E t \in Targets, k \in Slots : RecentDone(t, k)
    \/ \E t \in Targets, k \in Slots : WebsiteDone(t, k)
    \/ \E t \in Targets, k \in Slots, ok \in BOOLEAN : InsertSentDone(t, k, ok)
    \/ \E t \in Targets, k \in Slots, ok \in BOOLEAN :
          InsertFailedDone(t, k, ok)
    \/ \E t \in Targets, k \in Slots : QueryThrow(t, k)
    \/ Tick

SpecAlert == InitAlert /\ [][NextAlert]_vars

\* One uptime check on its own: an outcome is drawn, and performCheck of
\* the engine or checkUptime of the service gives it a status.
InitUptime ==
    /\ EngineInit
    /\ monitor_configs = [t \in Targets |-> NoConfig]
    /\ alert_configs = [t \in Targets |-> <<>>]
    /\ outcome \in ProbeOutcomes
    /\ result = NoResult
    /\ manual = NoManual

PerformCheck ==
    /\ result = NoResult
    /\ result' = PerformCheckResult(outcome)
    /\ UNCHANGED <<engineVars, dbVars, unscheduled, outcome, manualVars,
                   serviceVars>>

CheckUptime ==
    /\ result = NoResult
    /\ result' = CheckUptimeResult(outcome)
    /\ UNCHANGED <<engineVars, dbVars, unscheduled, outcome, manualVars,
                   serviceVars>>

NextUptime ==
    \/ PerformCheck
    \/ CheckUptime

SpecUptime == InitUptime /\ [][NextUptime]_vars

(* ------------------------------ SSLMonitor ------------------------------ *)

\* Time is counted in half days from now.
HalfDaysPerDay == 2
Now == 0

\* Signature algorithm names, as the words they are written with; <<>> is a
\* certificate without the property.
SigAlgs == { <<>>,
             <<"sha256", "With", "RSA", "Encryption">>,
             <<"sha1", "With", "RSA", "Encryption">>,
             <<"RSA", "-", "SHA1">>,
             <<"md5", "With", "RSA", "Encryption">>,
             <<"ecdsa", "-", "with", "-", "SHA384">> }

\* String.toLowerCase on one word.
ToLowerCase(w) ==
    CASE w = "SHA1" -> "sha1"
      [] w = "SHA384" -> "sha384"
      [] w = "RSA" -> "rsa"
      [] w = "With" -> "with"
      [] w = "Encryption" -> "encryption"
      [] OTHER -> w

\* sigAlg.includes(w) on the lower-cased name.
Includes(alg, w) == \E i \in 1..Len(alg) : ToLowerCase(alg[i]) = w

\* The certificates analysed: common names of issuer and subject ("" when
\* missing), the selfSigned property, the algorithm and the validity window.
Certificates ==
    [issuerCN : {"", "ca", "host"}, subjectCN : {"", "host"},
     selfSigned : {"undefined", "true", "false"}, sigalg : SigAlgs,
     valid_from : {-400, 1},
     valid_to : {-21, -20, -1, 0, 1, 2, 4, 10, 13, 14, 16, 59, 60, 62, 400}]

\* SSLMonitor.isSelfSignedCertificate
IsSelfSignedCertificate(c) ==
    IF c.issuerCN # "" /\ c.subjectCN # "" /\ c.issuerCN = c.subjectCN
    THEN TRUE
    ELSE c.selfSigned = "true"

\* Math.floor((expiresAt - now) / one day)
DaysUntilExpiry(c) == (c.valid_to - Now) \div HalfDaysPerDay

\* An analysis that took a certificate past its notAfter for valid.
CertificateValidFromOnly(c) ==
    Now >= c.valid_from /\ ~IsSelfSignedCertificate(c)

\* now >= validFrom && now <= expiresAt && !isSelfSigned
CertificateValid(c) ==
    Now >= c.valid_from /\ Now <= c.valid_to /\ ~IsSelfSignedCertificate(c)

Deduct(cond, points) == IF cond THEN points ELSE 0

\* A grading that left out the further deduction for expiry within 7 days.
SecurityScoreOneStep(c, daysUntilExpiry) ==
    100 - Deduct(IsSelfSignedCertificate(c), 50)
        - Deduct(daysUntilExpiry < 0, 40)
        - Deduct(daysUntilExpiry < 30 /\ daysUntilExpiry >= 0, 20)
        - Deduct(Includes(c.sigalg, "sha1"), 30)
        - Deduct(Includes(c.sigalg, "md5"), 50)

\* SSLMonitor.calculateSecurityGrade: the score.
SecurityScore(c, daysUntilExpiry) ==
    100 - Deduct(IsSelfSignedCertificate(c), 50)
        - Deduct(daysUntilExpiry < 0, 40)
        - Deduct(daysUntilExpiry < 30 /\ daysUntilExpiry >= 0, 20)
        - Deduct(daysUntilExpiry < 7 /\ daysUntilExpiry >= 0, 30)
        - Deduct(Includes(c.sigalg, "sha1"), 30)
        - Deduct(Includes(c.sigalg, "md5"), 50)

\* SSLMonitor.calculateSecurityGrade
CalculateSecurityGrade(c, daysUntilExpiry) ==
    LET score == SecurityScore(c, daysUntilExpiry)
    IN IF score >= 90 THEN "A+"
       ELSE IF score >= 80 THEN "A"
       ELSE IF score >= 70 THEN "B"
       ELSE IF score >= 60 THEN "C"
       ELSE IF score >= 50 THEN "D"
       ELSE "F"

\* SSLMonitor.analyzeCertificate, for certificates without issuer.O.
AnalyzeCertificateResult(c) ==
    [by |-> "analyzeCertificate",
     certificateValid |-> CertificateValid(c),
     daysUntilExpiry |-> DaysUntilExpiry(c),
     issuer |-> IF c.issuerCN # "" THEN c.issuerCN ELSE "Unknown",
     securityGrade |-> CalculateSecurityGrade(c, DaysUntilExpiry(c)),
     certificateChainValid |->
         ~IsSelfSignedCertificate(c) /\ CertificateValid(c)]

InitTLS ==
    /\ EngineInit
    /\ monitor_configs = [t \in Targets |-> NoConfig]
    /\ alert_configs = [t \in Targets |-> <<>>]
    /\ outcome \in Certificates
    /\ result = NoResult
    /\ manual = NoManual

AnalyzeCertificate ==
    /\ result.by = "none"
    /\ result' = AnalyzeCertificateResult(outcome)
    /\ UNCHANGED <<engineVars, dbVars, unscheduled, outcome, manualVars,
                   serviceVars>>

NextTLS == AnalyzeCertificate

SpecTLS == InitTLS /\ [][NextTLS]_vars

(* --------------------------- the TLS check ------------------------------ *)

\* The URL of the target: https, another protocol, or one new URL() rejects.
Urls == {"https", "http", "malformed"}

\* How the TLS connection ends: with the peer certificate, with a socket
\* error, or with the socket timeout.
Handshakes == {"certificate", "error", "timeout"}

\* An invalid result that said the certificate expires today.
CreateInvalidResultExpiring ==
    [by |-> "createInvalidResult", certificateValid |-> FALSE,
     daysUntilExpiry |-> 0, issuer |-> "null",
     securityGrade |-> "F", certificateChainValid |-> FALSE]

\* SSLMonitor.createInvalidResult
CreateInvalidResult ==
    [by |-> "createInvalidResult", certificateValid |-> FALSE,
     daysUntilExpiry |-> NullDays, issuer |-> "null",
     securityGrade |-> "F", certificateChainValid |-> FALSE]

\* The TLS check of one target: who runs it, where it is, how its handshake
\* ended, the value it returned, the rows it stored, whether the INSERT of
\* saveSSLResult threw, and the alert its caller raised.
NoTLSCheck == [by |-> "none", pc |-> "idle", handshake |-> "none",
               value |-> NoTLS, stored |-> 0, saveThrew |-> FALSE,
               alert |-> FALSE, urgency |-> "none"]

\* A scheduleSSLCheck that asked only for daysUntilExpiry <= 30.
SSLAlertUnguarded(r) == r.daysUntilExpiry <= 30

\* scheduleSSLCheck of the compiled engine: sendSSLAlert is called.
SSLAlert(r) == r.daysUntilExpiry # NullDays /\ r.daysUntilExpiry <= 30

\* sendSSLAlert: the urgency of the message.
Urgency(daysLeft) ==
    IF daysLeft <= 1 THEN "CRITICAL"
    ELSE IF daysLeft <= 7 THEN "URGENT"
    ELSE IF daysLeft <= 30 THEN "WARNING"
    ELSE ""

\* checkSSL of SSLMonitor returns r to the checkSSL closure of
\* scheduleSSLCheck, which raises the alert.
Return(r, stored) ==
    [by |-> "SSLMonitor", pc |-> "returned", handshake |-> result.handshake,
     value |-> r, stored |-> stored, saveThrew |-> FALSE,
     alert |-> SSLAlert(r),
     urgency |-> IF SSLAlert(r) THEN Urgency(r.daysUntilExpiry) ELSE "none"]

\* SSLMonitor.checkSSL up to its first await: a URL that does not parse
\* lands in the catch, another protocol returns the invalid result.
MonitorCheckSSL ==
    /\ result.by = "none"
    /\ result' =
         CASE outcome.url = "https" ->
                [NoTLSCheck EXCEPT !.by = "SSLMonitor", !.pc = "handshake"]
           [] outcome.url = "http" -> Return(CreateInvalidResult, 0)
           [] outcome.url = "malformed" ->
                [NoTLSCheck EXCEPT !.by = "SSLMonitor", !.pc = "save",
                                   !.value = CreateInvalidResult]
    /\ UNCHANGED <<engineVars, dbVars, unscheduled, outcome, manualVars,
                   serviceVars>>

\* getCertificate resolves or rejects; saveSSLResult awaits its INSERT.
MonitorHandshakeDone(h) ==
    /\ result.by = "SSLMonitor"
    /\ result.pc = "handshake"
    /\ result' = [result EXCEPT
                    !.pc = "save",
                    !.handshake = h,
                    !.value = IF h = "certificate"
                              THEN AnalyzeCertificateResult(outcome.certificate)
                              ELSE CreateInvalidResult]
    /\ UNCHANGED <<engineVars, dbVars, unscheduled, outcome, manualVars,
                   serviceVars>>

\* The INSERT of saveSSLResult returns (ok) or throws and is logged; checkSSL
\* returns the result it had.
MonitorSaveDone(ok) ==
    /\ result.by = "SSLMonitor"
    /\ result.pc = "save"
    /\ result' = [Return(result.value, IF ok THEN 1 ELSE 0)
                     EXCEPT !.saveThrew = ~ok]
    /\ UNCHANGED <<engineVars, dbVars, unscheduled, outcome, manualVars,
                   serviceVars>>

\* Math.ceil((validTo - now) / one day)
CeilDays(c) == -((Now - c.valid_to) \div HalfDaysPerDay)

\* Public keys of the peer certificate: type and size.
Pubkeys == [asymmetricKeyType : {"rsa", "ec"},
            asymmetricKeySize : {256, 1024, 2048}]

\* MonitoringService.calculateSSLGrade
CalculateSSLGrade(pubkey, chainValid) ==
    IF ~chainValid THEN "F"
    ELSE IF pubkey.asymmetricKeyType = "ec" /\ pubkey.asymmetricKeySize >= 256
    THEN "A+"
    ELSE IF pubkey.asymmetricKeyType = "rsa"
            /\ pubkey.asymmetricKeySize >= 2048
    THEN "A"
    ELSE IF pubkey.asymmetricKeySize >= 1024 THEN "B"
    ELSE "C"

\* The SSLInfo MonitoringService.checkSSL resolves with.
SslInfo(c, pubkey, chainValid) ==
    [by |-> "checkSSL",
     certificateValid |->
         Now >= c.valid_from /\ Now <= c.valid_to /\ chainValid,
     daysUntilExpiry |-> CeilDays(c),
     issuer |-> IF c.issuerCN # "" THEN c.issuerCN ELSE "Unknown",
     securityGrade |-> CalculateSSLGrade(pubkey, chainValid),
     certificateChainValid |-> chainValid]

\* MonitoringService.checkAlerts: the ssl_expiry condition on the sslInfo
\* of the result (NoTLS when it has none).
SslExpiryAlert(sslInfo) ==
    sslInfo.by # "none" /\ sslInfo.daysUntilExpiry <= 30

\* checkSSL of the service settles with sslInfo or with none, and
\* checkAlerts sees the merged result.
Settle(sslInfo) ==
    [by |-> "MonitoringService", pc |-> "returned",
     handshake |-> result.handshake, value |-> sslInfo,
     stored |-> 0, saveThrew |-> FALSE, alert |-> SslExpiryAlert(sslInfo),
     urgency |-> "none"]

\* MonitoringService.checkSSL up to the TLS connection: null for a URL that
\* is not https or does not parse.
ServiceCheckSSL ==
    /\ result.by = "none"
    /\ result' =
         IF outcome.url = "https"
         THEN [NoTLSCheck EXCEPT !.by = "MonitoringService",
                                 !.pc = "handshake"]
         ELSE Settle(NoTLS)
    /\ UNCHANGED <<engineVars, dbVars, unscheduled, outcome, manualVars,
                   serviceVars>>

\* The TLS connection of the service is made, or fails and checkSSL rejects.
ServiceHandshakeDone(h, pubkey, authorized) ==
    /\ result.by = "MonitoringService"
    /\ result.pc = "handshake"
    /\ result' = IF h = "certificate"
                 THEN Settle(SslInfo(outcome.certificate, pubkey, authorized))
                 ELSE Settle(NoTLS)
    /\ UNCHANGED <<engineVars, dbVars, unscheduled, outcome, manualVars,
                   serviceVars>>

\* The certificates of the TLS check: one issuer, every validity window.
CheckedCertificates ==
    {c \in Certificates : c.issuerCN = "ca" /\ c.selfSigned = "undefined"
                          /\ c.subjectCN = "host"
                          /\ Len(c.sigalg) = 4 /\ c.sigalg[1] # "md5"}

InitSSL ==
    /\ EngineInit
    /\ monitor_configs = [t \in Targets |-> NoConfig]
    /\ alert_configs = [t \in Targets |-> <<>>]
    /\ outcome \in [url : Urls, certificate : CheckedCertificates]
    /\ result = NoTLSCheck
    /\ manual = NoManual

NextSSL ==
    \/ MonitorCheckSSL
    \/ \E h \in Handshakes : MonitorHandshakeDone(h)
    \/ \E ok \in BOOLEAN : MonitorSaveDone(ok)
    \/ ServiceCheckSSL
    \/ \E h \in Handshakes, pubkey \in Pubkeys, authorized \in BOOLEAN :
          ServiceHandshakeDone(h, pubkey, authorized)

SpecSSL == InitSSL /\ [][NextSSL]_vars

(* --------------------------- MonitoringService -------------------------- *)

\* What the three parallel checks of performWebsiteCheck end in: the uptime
\* request, and whether checkPerformance gave metrics.
ServiceOutcomes == [kind : {"response"}, code : {200}, ms : {100}]
                   \cup [kind : {"network"}, code : {0}, ms : {100}]

\* Math.round(5000 / responseTime * 100), with Infinity (responseTime 0)
\* as Infinite.
Infinite == -2
RoundedRatio(responseTime) ==
    IF responseTime = 0 THEN Infinite
    ELSE (2 * 500000 + responseTime) \div (2 * responseTime)

\* The performance score saveMonitorResult stores and
\* broadcastRealtimeUpdate sends.
ServiceScore(performanceMetrics, responseTime) ==
    IF performanceMetrics THEN RoundedRatio(responseTime) ELSE Absent

\* What checkSSL settles in: rejected (socket error or timeout), null (a URL
\* that is not https), or the SSLInfo of a certificate.
SslSettlements ==
    {Rejected(NoTLS), Fulfilled(NoTLS)}
    \cup {Fulfilled(SslInfo(c, pubkey, authorized)) :
            c \in CheckedCertificates, pubkey \in Pubkeys,
            authorized \in BOOLEAN}

\* A merge that took the failure of the TLS check for one of the target.
MergeAll(uptime, ssl, performance) ==
    IF ssl.status = "rejected"
    THEN [NoServiceResult EXCEPT !.status = "down"]
    ELSE [status |-> uptime.value.status,
          responseTime |-> uptime.value.responseTime,
          statusCode |-> uptime.value.statusCode,
          errorMessage |-> uptime.value.errorMessage,
          sslInfo |-> ssl.value,
          performanceMetrics |-> performance.value,
          performanceScore |-> ServiceScore(performance.value,
                                            uptime.value.responseTime)]

\* performWebsiteCheck: the three settled checks merged into the result; the
\* value of a rejected check is null, and a null uptime reads as down, 0 ms.
Merge(uptime, ssl, performance) ==
    LET up == uptime.status = "fulfilled"
        sslInfo == IF ssl.status = "fulfilled" THEN ssl.value ELSE NoTLS
        metrics == performance.status = "fulfilled" /\ performance.value
        responseTime == IF up THEN uptime.value.responseTime ELSE 0
    IN [status |-> IF up THEN uptime.value.status ELSE "down",
        responseTime |-> responseTime,
        statusCode |-> IF up THEN uptime.value.statusCode ELSE Absent,
        errorMessage |-> IF up THEN uptime.value.errorMessage ELSE NoMessage,
        sslInfo |-> sslInfo,
        performanceMetrics |-> metrics,
        performanceScore |-> ServiceScore(metrics, responseTime)]

\* The merged result of performWebsiteCheck: checkUptime and
\* checkPerformance catch what they throw and always fulfil.
ServiceResult(o, ssl, performanceMetrics) ==
    Merge(Fulfilled(CheckUptimeResult(o)), ssl, Fulfilled(performanceMetrics))

StatusChangeMs == 10000
PerformanceMs == 15000

\* MonitoringService.checkAlerts: the status_change condition.
StatusChangeAlert(res) ==
    res.status = "down"
    \/ (res.status = "degraded" /\ res.responseTime > StatusChangeMs)

\* MonitoringService.checkAlerts: the performance condition.
PerformanceAlert(res) == res.responseTime > PerformanceMs

\* MonitoringService.checkAlerts: the alert types it triggers, in order.
ServiceAlerts(res) ==
    (IF StatusChangeAlert(res) THEN <<"status_change">> ELSE <<>>)
    \o (IF SslExpiryAlert(res.sslInfo) THEN <<"ssl_expiry">> ELSE <<>>)
    \o (IF PerformanceAlert(res) THEN <<"performance">> ELSE <<>>)

\* alert_history.destination is NOT NULL and triggerAlert inserts none: the
\* INSERT of triggerAlert is rejected.
AlertInsertAccepted == {FALSE}

\* The rows of the startMonitoring query, in id order.
RECURSIVE WebsiteRows(_)
WebsiteRows(n) ==
    IF n = 0 THEN <<>>
    ELSE WebsiteRows(n - 1)
         \o (IF monitor_configs[n].present THEN <<n>> ELSE <<>>)

Summary(t, c) == [websiteId |-> t, inserted |-> c.inserted,
                  published |-> c.published, alertRows |-> c.alertRows,
                  alertEvents |-> c.alertEvents]

\* startWebsiteMonitoring up to its await: the existing interval is cleared
\* and the initial check starts. mi, li, cs are the map, the live handles
\* and the checks so far.
BeginWebsite(b, mi, li, cs) ==
    /\ monitoringIntervals' =
         [mi EXCEPT ![b] = IF @ = "live" THEN "cleared" ELSE @]
    /\ liveIntervals' = [li EXCEPT ![b] = IF mi[b] = "live" THEN @ - 1 ELSE @]
    /\ checks' = [cs EXCEPT ![b]["start"] = [FreeCheck EXCEPT !.pc = "probe"]]

\* performWebsiteCheck of t returns to its caller c being the finished
\* check. The interval callback ends; startWebsiteMonitoring sets the
\* interval and startMonitoring goes on to its next row.
Finish(t, o, c) ==
    LET cs == [checks EXCEPT ![t][o] = FreeCheck]
    IN /\ lastCheck' = Summary(t, c)
       /\ IF o = "interval"
          THEN /\ checks' = cs
               /\ UNCHANGED <<startup, liveIntervals, monitoringIntervals>>
          ELSE IF o = "add"
          THEN /\ checks' = cs
               /\ monitoringIntervals' =
                     [monitoringIntervals EXCEPT ![t] = "live"]
               /\ liveIntervals' = [liveIntervals EXCEPT ![t] = @ + 1]
               /\ UNCHANGED startup
          ELSE LET mi == [monitoringIntervals EXCEPT ![t] = "live"]
                   li == [liveIntervals EXCEPT ![t] = @ + 1]
               IN IF startup.idx < Len(startup.rows)
                  THEN /\ startup' = [startup EXCEPT !.idx = @ + 1]
                       /\ BeginWebsite(startup.rows[startup.idx + 1],
                                       mi, li, cs)
                  ELSE /\ startup' = NoStartup
                       /\ monitoringIntervals' = mi
                       /\ liveIntervals' = li
                       /\ checks' = cs

\* saveMonitorResult has returned: checkAlerts runs, and the check returns
\* if it triggers nothing.
AfterSave(t, o, c) ==
    LET alerts == ServiceAlerts(c.res)
    IN IF alerts = <<>>
       THEN Finish(t, o, c)
       ELSE /\ checks' = [checks EXCEPT
                            ![t][o] = [c EXCEPT !.pc = "alert",
                                                !.alerts = alerts]]
            /\ UNCHANGED <<startup, liveIntervals, monitoringIntervals,
                           lastCheck>>

\* startMonitoring is called while the service is not running.
StartMonitoring ==
    /\ ~serviceIsRunning
    /\ startup.pc = "idle"
    /\ serviceIsRunning' = TRUE
    /\ startup' = [startup EXCEPT !.pc = "query"]
    /\ UNCHANGED <<engineVars, dbVars, unscheduled, probeVars, manualVars,
                   monitoringIntervals, liveIntervals, checks, lastCheck,
                   webSocketService>>

\* The query of startMonitoring returns (ok) or throws.
StartQueryDone(ok) ==
    /\ startup.pc = "query"
    /\ IF ~ok
       THEN /\ serviceIsRunning' = FALSE
            /\ startup' = NoStartup
            /\ UNCHANGED <<monitoringIntervals, liveIntervals, checks>>
       ELSE LET rows == WebsiteRows(NumTargets)
            IN IF rows = <<>>
               THEN /\ startup' = NoStartup
                    /\ UNCHANGED <<serviceIsRunning, monitoringIntervals,
                                   liveIntervals, checks>>
               ELSE /\ startup' = [pc |-> "loop", rows |-> rows, idx |-> 1]
                    /\ BeginWebsite(rows[1], monitoringIntervals,
                                    liveIntervals, checks)
                    /\ UNCHANGED serviceIsRunning
    /\ UNCHANGED <<engineVars, dbVars, unscheduled, probeVars, manualVars,
                   lastCheck, webSocketService>>

\* stopMonitoring: every interval of the map is cleared and the map emptied.
StopMonitoring ==
    /\ serviceIsRunning
    /\ serviceIsRunning' = FALSE
    /\ liveIntervals' = [t \in Targets |->
          IF monitoringIntervals[t] = "live" THEN liveIntervals[t] - 1
          ELSE liveIntervals[t]]
    /\ monitoringIntervals' = [t \in Targets |-> "none"]
    /\ UNCHANGED <<engineVars, dbVars, unscheduled, probeVars, manualVars,
                   startup, checks, lastCheck, webSocketService>>

\* addWebsiteMonitoring(t) while the service runs: startWebsiteMonitoring
\* clears the interval the map holds and awaits the initial check.
AddWebsiteMonitoring(t) ==
    /\ serviceIsRunning
    /\ checks[t]["add"].pc = "free"
    /\ liveIntervals[t] < MaxLiveIntervals
    /\ monitoringIntervals' =
         [monitoringIntervals EXCEPT ![t] = IF @ = "live" THEN "cleared" ELSE @]
    /\ liveIntervals' =
         [liveIntervals EXCEPT
            ![t] = IF monitoringIntervals[t] = "live" THEN @ - 1 ELSE @]
    /\ checks' = [checks EXCEPT ![t]["add"] = [FreeCheck EXCEPT !.pc = "probe"]]
    /\ UNCHANGED <<engineVars, dbVars, unscheduled, probeVars, manualVars,
                   serviceIsRunning, startup, lastCheck, webSocketService>>

\* removeWebsiteMonitoring(t): the interval the map holds is cleared and its
\* entry deleted; a startWebsiteMonitoring(t) awaiting its initial check is
\* left alone, and remembers that the removal returned meanwhile.
RemoveWebsiteMonitoring(t) ==
    /\ \/ monitoringIntervals[t] # "none"
       \/ \E o \in Starters : checks[t][o].pc # "free"
    /\ monitoringIntervals' = [monitoringIntervals EXCEPT ![t] = "none"]
    /\ liveIntervals' =
         [liveIntervals EXCEPT
            ![t] = IF monitoringIntervals[t] = "live" THEN @ - 1 ELSE @]
    /\ checks' = [checks EXCEPT ![t] = [o \in Owners |->
                    IF o \in Starters /\ @[o].pc # "free"
                    THEN [@[o] EXCEPT !.removed = TRUE]
                    ELSE @[o]]]
    /\ UNCHANGED <<engineVars, dbVars, unscheduled, probeVars, manualVars,
                   serviceIsRunning, startup, lastCheck, webSocketService>>

\* An interval of t fires while the service runs: a check of t starts.
IntervalFire(t) ==
    /\ liveIntervals[t] > 0
    /\ serviceIsRunning
    /\ checks[t]["interval"].pc = "free"
    /\ Cardinality({u \in Targets : checks[u]["interval"].pc # "free"})
         < MaxIntervalChecks
    /\ checks' = [checks EXCEPT
                    ![t]["interval"] = [FreeCheck EXCEPT !.pc = "probe"]]
    /\ UNCHANGED <<engineVars, dbVars, unscheduled, probeVars, manualVars,
                   serviceIsRunning, monitoringIntervals, liveIntervals,
                   startup, lastCheck, webSocketService>>

\* Promise.allSettled of the three checks settles; saveMonitorResult awaits
\* its INSERT.
ProbeDone(t, o, out, ssl, performanceMetrics) ==
    /\ checks[t][o].pc = "probe"
    /\ checks' = [checks EXCEPT
                    ![t][o] = [@ EXCEPT
                        !.pc = "insert",
                        !.settled = [uptime |-> CheckUptimeResult(out),
                                     ssl |-> ssl,
                                     performance |-> performanceMetrics],
                        !.res = ServiceResult(out, ssl, performanceMetrics)]]
    /\ UNCHANGED <<engineVars, dbVars, unscheduled, probeVars, manualVars,
                   serviceIsRunning, monitoringIntervals, liveIntervals,
                   startup, lastCheck, webSocketService>>

\* The INSERT into monitor_results returns (ok) or throws; a throw ends
\* saveMonitorResult.
InsertDone(t, o, ok) ==
    /\ checks[t][o].pc = "insert"
    /\ ok => monitor_configs[t].present
    /\ monitor_results' = [monitor_results EXCEPT
          ![t] = IF ok THEN Min(@ + 1, MaxResults) ELSE @]
    /\ IF ok
       THEN /\ checks' = [checks EXCEPT
                            ![t][o] = [@ EXCEPT !.pc = "update",
                                                !.inserted = TRUE]]
            /\ UNCHANGED <<startup, liveIntervals, monitoringIntervals,
                           lastCheck>>
       ELSE AfterSave(t, o, checks[t][o])
    /\ UNCHANGED <<engineVars, monitor_configs, alert_configs, alert_history,
                   unscheduled, probeVars, manualVars, serviceIsRunning,
                   webSocketService>>

\* The UPDATE of websites returns (ok) or throws; broadcastRealtimeUpdate
\* returns at once without a WebSocket service.
UpdateDone(t, o, ok) ==
    /\ checks[t][o].pc = "update"
    /\ IF ok /\ webSocketService
       THEN /\ checks' = [checks EXCEPT ![t][o] = [@ EXCEPT !.pc = "lookup"]]
            /\ UNCHANGED <<startup, liveIntervals, monitoringIntervals,
                           lastCheck>>
       ELSE AfterSave(t, o, checks[t][o])
    /\ UNCHANGED <<engineVars, dbVars, unscheduled, probeVars, manualVars,
                   serviceIsRunning, webSocketService>>

\* The SELECT of broadcastRealtimeUpdate returns (ok) or throws; the update
\* is broadcast if the website row is there.
LookupDone(t, o, ok) ==
    /\ checks[t][o].pc = "lookup"
    /\ AfterSave(t, o, [checks[t][o] EXCEPT
                          !.published = ok /\ monitor_configs[t].present])
    /\ UNCHANGED <<engineVars, dbVars, unscheduled, probeVars, manualVars,
                   serviceIsRunning, webSocketService>>

\* The INSERT of triggerAlert returns (ok) or throws; checkAlerts goes on to
\* its next condition.
AlertInsertDone(t, o, ok) ==
    /\ checks[t][o].pc = "alert"
    /\ ok \in AlertInsertAccepted
    /\ LET c == [checks[t][o] EXCEPT
                   !.alerts = Tail(@),
                   !.alertRows = IF ok THEN @ + 1 ELSE @]
       IN IF c.alerts = <<>>
          THEN Finish(t, o, c)
          ELSE /\ checks' = [checks EXCEPT ![t][o] = c]
               /\ UNCHANGED <<startup, liveIntervals, monitoringIntervals,
                              lastCheck>>
    /\ UNCHANGED <<engineVars, dbVars, unscheduled, probeVars, manualVars,
                   serviceIsRunning, webSocketService>>

\* What checkSSL settles in for the targets of the service: rejected, null,
\* or a certificate with 5 days left.
ServiceSsl ==
    {Rejected(NoTLS), Fulfilled(NoTLS)}
    \cup {s \in SslSettlements :
            /\ s.value.daysUntilExpiry = 5
            /\ s.value.securityGrade = "A"
            /\ s.value.certificateValid}

\* Both targets registered; the service built with or without a WebSocket
\* service.
InitService ==
    /\ EngineIdle
    /\ ServiceIdle
    /\ NoProbe
    /\ webSocketService \in BOOLEAN
    /\ monitor_configs = [t \in Targets |->
          [present |-> TRUE, enabled |-> TRUE,
           check_interval |-> DefaultInterval]]
    /\ alert_configs = [t \in Targets |-> <<>>]

NextService ==
    \/ StartMonitoring
    \/ \E ok \in BOOLEAN : StartQueryDone(ok)
    \/ StopMonitoring
    \/ \E t \in Targets : IntervalFire(t)
    \/ \E t \in Targets, o \in Owners, out \in ServiceOutcomes,
          ssl \in ServiceSsl, pm \in BOOLEAN : ProbeDone(t, o, out, ssl, pm)
    \/ \E t \in Targets, o \in Owners, ok \in BOOLEAN : InsertDone(t, o, ok)
    \/ \E t \in Targets, o \in Owners, ok \in BOOLEAN : UpdateDone(t, o, ok)
    \/ \E t \in Targets, o \in Owners, ok \in BOOLEAN : LookupDone(t, o, ok)
    \/ \E t \in Targets, o \in Owners, ok \in BOOLEAN :
          AlertInsertDone(t, o, ok)

SpecService == InitService /\ [][NextService]_vars

\* The websites of the service coming and going: every check finds its
\* target up without TLS information or metrics.
LifecycleOutcomes == [kind : {"response"}, code : {200}, ms : {100}]

NextLifecycle ==
    \/ StartMonitoring
    \/ \E ok \in BOOLEAN : StartQueryDone(ok)
    \/ StopMonitoring
    \/ \E t \in Targets : AddWebsiteMonitoring(t)
    \/ \E t \in Targets : RemoveWebsiteMonitoring(t)
    \/ \E t \in Targets : IntervalFire(t)
    \/ \E t \in Targets, o \in Owners, out \in LifecycleOutcomes :
          ProbeDone(t, o, out, Rejected(NoTLS), FALSE)
    \/ \E t \in Targets, o \in Owners, ok \in BOOLEAN : InsertDone(t, o, ok)
    \/ \E t \in Targets, o \in Owners, ok \in BOOLEAN : UpdateDone(t, o, ok)

\* Both targets registered, the service built without a WebSocket service.
InitLifecycle == InitService /\ ~webSocketService

SpecLifecycle == InitLifecycle /\ [][NextLifecycle]_vars

(* ------------------- one result, its score and its alert ---------------- *)

\* MonitoringEngine.checkAlerts: the alert rules of the target are evaluated
\* (and an alert sent for each with no record inside the window) for every
\* result but one of status up.
EngineAlert(res) == res.status # "up"

\* One tick of the engine on the outcome: the result of performCheck and
\* whether checkAlerts goes on to the rules; the engine has no alert of its
\* own for the response time.
EngineCheck ==
    /\ result.by = "none"
    /\ LET res == PerformCheckResult(outcome)
       IN result' = [by |-> "performCheck", status |-> res.status,
                     responseTime |-> res.responseTime,
                     statusCode |-> res.statusCode,
                     performanceScore |-> res.performanceScore,
                     alert |-> EngineAlert(res), performance |-> FALSE]
    /\ UNCHANGED <<engineVars, dbVars, unscheduled, outcome, manualVars,
                   serviceVars>>

\* One performWebsiteCheck of the service on the outcome: the merged result
\* with the score saveMonitorResult stores and whether checkAlerts triggers
\* status_change and performance.
PerformWebsiteCheck(ssl, performanceMetrics) ==
    /\ result.by = "none"
    /\ LET res == ServiceResult(outcome, ssl, performanceMetrics)
       IN result' = [by |-> "performWebsiteCheck", status |-> res.status,
                     responseTime |-> res.responseTime,
                     statusCode |-> res.statusCode,
                     performanceScore |-> res.performanceScore,
                     sslInfo |-> res.sslInfo, ssl |-> ssl,
                     performanceMetrics |-> res.performanceMetrics,
                     alert |-> StatusChangeAlert(res),
                     performance |-> PerformanceAlert(res)]
    /\ UNCHANGED <<engineVars, dbVars, unscheduled, outcome, manualVars,
                   serviceVars>>

NextResult ==
    \/ EngineCheck
    \/ \E ssl \in SslSettlements, pm \in BOOLEAN :
          PerformWebsiteCheck(ssl, pm)

SpecResult == InitUptime /\ [][NextResult]_vars

(* -------------------- checkWebsite(id), the manual check --------------- *)

\* What a checkWebsite call gave back: the value it returned (NoResult for
\* null), and history of the call: the id, whether the id had an enabled
\* config when the query ran, whether the query and the INSERT succeeded,
\* and the rows it persisted.
Returned(websiteId, value, enabled, queryOk, insertOk, rows) ==
    [websiteId |-> websiteId, value |-> value, enabled |-> enabled,
     queryOk |-> queryOk, insertOk |-> insertOk, rows |-> rows]

\* A saveResult that stored its row although the INSERT threw.
SavedRowsAlways(ok) == 1

\* The rows saveResult stores: one when its INSERT succeeds, none when it
\* throws.
SavedRows(ok) == IF ok THEN 1 ELSE 0

\* checkWebsite(websiteId) is called and awaits its query.
CheckWebsite(t) ==
    /\ manual.pc = "idle"
    /\ Len(manual.returned) < MaxCalls
    /\ manual' = [manual EXCEPT !.pc = "query", !.websiteId = t]
    /\ UNCHANGED <<engineVars, dbVars, unscheduled, probeVars, serviceVars>>

\* The query returns (ok) or throws: null without a row or on a throw,
\* otherwise performCheck awaits its fetch.
ManualQueryDone(ok) ==
    /\ manual.pc = "query"
    /\ LET t == manual.websiteId
       IN manual' =
            IF ok /\ t \in EnabledRows
            THEN [manual EXCEPT !.pc = "fetch"]
            ELSE [manual EXCEPT
                    !.pc = "idle",
                    !.returned = Append(@, Returned(t, NoResult,
                                     t \in EnabledRows, ok, FALSE, 0))]
    /\ UNCHANGED <<engineVars, dbVars, unscheduled, probeVars, serviceVars>>

\* The fetch ends after ms milliseconds as the target behaves; saveResult
\* awaits its INSERT.
ManualFetchDone(ms) ==
    /\ manual.pc = "fetch"
    /\ ms \in IF outcome.kind = "abort" THEN AbortElapsed ELSE ProbeElapsed
    /\ manual' = [manual EXCEPT
                    !.pc = "save",
                    !.res = PerformCheckResult([outcome EXCEPT !.ms = ms])]
    /\ UNCHANGED <<engineVars, dbVars, unscheduled, probeVars, serviceVars>>

\* The INSERT of saveResult returns (ok) or throws and is logged; the
\* result is returned either way.
ManualSaveDone(ok) ==
    /\ manual.pc = "save"
    /\ LET t == manual.websiteId
       IN /\ ok => monitor_configs[t].present
          /\ monitor_results' = [monitor_results EXCEPT
                 ![t] = @ + SavedRows(ok)]
          /\ manual' = [manual EXCEPT
                 !.pc = "idle",
                 !.res = NoResult,
                 !.returned = Append(@, Returned(t, manual.res, TRUE, TRUE,
                          ok, monitor_results'[t] - monitor_results[t]))]
    /\ UNCHANGED <<engineVars, monitor_configs, alert_configs, alert_history,
                   unscheduled, probeVars, serviceVars>>

\* How a target behaves: the outcome of every fetch but for its duration.
Behaviours == [kind : {"response"}, code : Codes, ms : {0}]
              \cup [kind : {"abort", "network"}, code : {0}, ms : {0}]

\* Target 1 registered, its config enabled or not, behaving one way.
InitManual ==
    /\ EngineInit
    /\ \E e \in BOOLEAN :
         monitor_configs = [t \in Targets |->
            IF t = 1 THEN [present |-> TRUE, enabled |-> e,
                           check_interval |-> DefaultInterval]
            ELSE NoConfig]
    /\ alert_configs = [t \in Targets |-> <<>>]
    /\ outcome \in Behaviours
    /\ result = NoResult
    /\ manual = NoManual

NextManual ==
    \/ \E t \in Targets : CheckWebsite(t)
    \/ \E ok \in BOOLEAN : ManualQueryDone(ok)
    \/ \E ms \in ProbeElapsed \cup AbortElapsed : ManualFetchDone(ms)
    \/ \E ok \in BOOLEAN : ManualSaveDone(ok)

SpecManual == InitManual /\ [][NextManual]_vars

(* --------------------------- WebSocketService --------------------------- *)

Users == 1..MaxUsers
Sockets == 1..MaxSockets

\* connectedUsers without an entry for the user.
NoEntryOf == [present |-> FALSE, sockets |-> {}]

\* The connection handler on the entry of the user: the entry is created
\* if there is none, and the socket id added to its set.
Connected(entry, s) == [present |-> TRUE, sockets |-> entry.sockets \cup {s}]

\* A disconnect handler that left the emptied set in the map.
DisconnectedKeepingEntry(entry, s) ==
    IF entry.present
    THEN [present |-> TRUE, sockets |-> entry.sockets \ {s}]
    ELSE entry

\* The disconnect handler on the entry of the user: the socket id is
\* deleted from its set, and the entry deleted when the set is empty.
Disconnected(entry, s) ==
    IF entry.present
    THEN IF entry.sockets \ {s} = {}
         THEN NoEntryOf
         ELSE [present |-> TRUE, sockets |-> entry.sockets \ {s}]
    ELSE entry

\* The authentication middleware refuses the socket: no connection event.
AuthReject(s) ==
    /\ result.by = "WebSocketService"
    /\ outcome[s].state = "new"
    /\ outcome' = [outcome EXCEPT ![s].state = "refused"]
    /\ UNCHANGED <<engineVars, dbVars, unscheduled, result, manualVars,
                   serviceVars>>

\* The connection event of a socket the middleware let through.
Connection(s) ==
    /\ result.by = "WebSocketService"
    /\ outcome[s].state = "new"
    /\ outcome' = [outcome EXCEPT ![s].state = "open"]
    /\ result' = [result EXCEPT
                    !.connectedUsers[outcome[s].userId] = Connected(@, s)]
    /\ UNCHANGED <<engineVars, dbVars, unscheduled, manualVars, serviceVars>>

\* The disconnect event of an open socket.
Disconnect(s) ==
    /\ result.by = "WebSocketService"
    /\ outcome[s].state = "open"
    /\ outcome' = [outcome EXCEPT ![s].state = "closed"]
    /\ result' = [result EXCEPT
                    !.connectedUsers[outcome[s].userId] = Disconnected(@, s)]
    /\ UNCHANGED <<engineVars, dbVars, unscheduled, manualVars, serviceVars>>

GetConnectedUsersCount ==
    Cardinality({u \in Users : result.connectedUsers[u].present})

IsUserConnected(u) ==
    /\ result.connectedUsers[u].present
    /\ Cardinality(result.connectedUsers[u].sockets) > 0

\* The service after construction, and the sockets that will come, each
\* with the user of its token.
InitSockets ==
    /\ EngineInit
    /\ monitor_configs = [t \in Targets |-> NoConfig]
    /\ alert_configs = [t \in Targets |-> <<>>]
    /\ manual = NoManual
    /\ outcome \in [Sockets -> [userId : Users, state : {"new"}]]
    /\ result = [by |-> "WebSocketService",
                 connectedUsers |-> [u \in Users |-> NoEntryOf]]

NextSockets ==
    \/ \E s \in Sockets : AuthReject(s)
    \/ \E s \in Sockets : Connection(s)
    \/ \E s \in Sockets : Disconnect(s)

SpecSockets == InitSockets /\ [][NextSockets]_vars

(* ------------------------------- claims -------------------------------- *)

Pending(t) == {k \in Slots : chains[t][k].pc = "timer"}
Running(t) == {k \in Slots : chains[t][k].pc \in InFlight}

\* C1: at every instant a target id has at most one active timer, pending
\* re-arm or self-rescheduling check chain.
C1_OneTimerPerTarget ==
    \A t \in Targets : Cardinality(Pending(t) \cup Running(t)) <= 1

\* C2: a new check of a target never starts while a previous check of the
\* same target is still in progress.
C2_NoConcurrentChecks ==
    \A t \in Targets : Cardinality(Running(t)) <= 1

\* C4: after a registry refresh completed, a target that it did not find
\* enabled (disabled or deleted) has no timer.
C4_DisabledHasNoTimer ==
    \A t \in Targets : unscheduled[t] => Pending(t) = {}

\* C5: once stop() has been called activeChecks is empty and no timer is
\* left to fire, and a check that was in flight when stop() was called never
\* arms a new timer.
C5_NoRearmAfterStop ==
    /\ ~isRunning => \A t \in Targets : /\ activeChecks[t] = NoEntry
                                        /\ Pending(t) = {}
    /\ \A t \in Targets, k \in Slots :
         ~(chains[t][k].pc = "timer" /\ chains[t][k].stopped)

\* C6: while the engine is running, every completed tick arms a new timer
\* of check_interval seconds, held by activeChecks, whatever the result; so
\* a target with a timer is checked again, unless the engine is stopped.
C6_CompletedTickRearms ==
    /\ [][\A t \in Targets, k \in Slots :
            (/\ chains[t][k].pc \in InFlight
             /\ chains'[t][k].pc \notin InFlight
             /\ isRunning)
            => /\ chains'[t][k].pc = "timer"
               /\ chains'[t][k].rem * TickMs
                      >= chains[t][k].check_interval * 1000
               /\ chains[t][k].check_interval \in CheckIntervals
               /\ activeChecks'[t] = k]_vars
    /\ \A t \in Targets :
          (isRunning /\ Pending(t) # {})
          ~> (~isRunning \/ \E k \in Slots : chains[t][k].pc = "fetch")

\* A tick whose result row was not saved has re-armed.
C6_Witness ==
    \E t \in Targets, k \in Slots :
        /\ chains[t][k].pc = "timer"
        /\ chains[t][k].rem > 0
        /\ monitor_results[t] = 0
        /\ isRunning

\* C7: a check of a target never starts while the timer armed at the end of
\* its previous tick still has part of its check_interval to run.
C7_WaitsInterval ==
    [][\A t \in Targets :
         (\E k \in Slots : chains'[t][k].pc = "fetch"
                           /\ chains[t][k].pc # "fetch")
         => \A j \in Slots : chains[t][j].pc = "timer"
                             => chains[t][j].rem = 0]_vars

RowsOf(t, alert_type) ==
    {i \in 1..Len(alert_history) :
        /\ alert_history[i].website_id = t
        /\ alert_history[i].alert_type = alert_type}

Abs(n) == IF n < 0 THEN -n ELSE n

\* C3: no two alert records of the same (target, alert type) are created
\* within 15 minutes of each other.
C3_OneAlertPerWindow ==
    \A t \in Targets, a \in {"email", "sms", "webhook"} :
        \A i, j \in RowsOf(t, a) :
            i # j => Abs(alert_history[i].age - alert_history[j].age) * TickMs
                       >= 15 * 60 * 1000

RecentRowsOf(t, alert_type) ==
    {i \in RowsOf(t, alert_type) :
        alert_history[i].age * TickMs < 15 * 60 * 1000}

\* C8: after a non-up tick whose alert evaluation ran undisturbed, every
\* alert type among the enabled rules has exactly one record younger than
\* 15 minutes: the first tick creates it, a tick within the window creates
\* none, a tick after the window creates a new one.
C8_SuppressionWindow ==
    \A t \in Targets, k \in Slots :
        (chains[t][k].pc = "timer" /\ chains[t][k].clean)
        => \A i \in 1..Len(chains[t][k].rows) :
             Cardinality(RecentRowsOf(t, chains[t][k].rows[i].alert_type)) = 1

\* A non-up tick evaluated the rules inside the window of a record made by
\* an earlier tick, and created none.
C8_Witness ==
    \E t \in Targets, k \in Slots :
        /\ chains[t][k].pc = "timer"
        /\ chains[t][k].clean
        /\ chains[t][k].rows # <<>>
        /\ RowsOf(t, chains[t][k].rows[1].alert_type) # {}
        /\ \A i \in RowsOf(t, chains[t][k].rows[1].alert_type) :
              alert_history[i].age > 0

\* C10: after a non-up tick whose alert evaluation ran undisturbed, every
\* enabled rule of the target has its own delivery record.
C10_EveryRuleDelivered ==
    \A t \in Targets, k \in Slots :
        (chains[t][k].pc = "timer" /\ chains[t][k].clean)
        => \A i \in 1..Len(chains[t][k].rows) :
             \E j \in 1..Len(alert_history) :
                /\ alert_history[j].website_id = t
                /\ alert_history[j].alert_type = chains[t][k].rows[i].alert_type
                /\ alert_history[j].destination =
                       chains[t][k].rows[i].destination

\* C9: the uptime check gives a 2xx response 'up', or 'degraded' when it
\* took more than 5000 ms, a 4xx response 'degraded', a 5xx response or a
\* network or timeout failure 'down', and any other response one of the
\* three statuses.
C9_StatusMapping ==
    result.by # "none" =>
        IF outcome.kind # "response" \/ outcome.code >= 500
        THEN result.status = "down"
        ELSE IF outcome.code >= 200 /\ outcome.code < 300
        THEN result.status = IF outcome.ms > 5000 THEN "degraded" ELSE "up"
        ELSE IF outcome.code >= 400
        THEN result.status = "degraded"
        ELSE result.status \in {"up", "degraded", "down"}

\* C11: a step in which the target query of start() throws leaves the
\* engine not running (the failure is not swallowed with isRunning true and
\* no target loaded).
C11_StartFailureSurfaced ==
    [][(\E i \in 1..Len(loads) : loads[i] = "start" /\ LoadDone(i, FALSE))
        => ~isRunning']_vars

SameOutcome(a, b) ==
    /\ a.status = b.status
    /\ a.statusCode = b.statusCode
    /\ a.errorMessage = b.errorMessage

WaitsFor(b, a) ==
    /\ startup.pc = "loop"
    /\ startup.rows[startup.idx] = a
    /\ checks[a]["start"].pc # "free"
    /\ \E j \in (startup.idx + 1)..Len(startup.rows) : startup.rows[j] = b

\* C14: the start of a check of one target never waits for the completion
\* of the check of another target.
C14_NoCrossTargetWait ==
    \A a, b \in Targets : a # b => ~WaitsFor(b, a)

\* C15: with a WebSocket service attached, a check that persisted its result
\* published a monitoring update and one that published had persisted, and
\* it published an alert event for every alert record it created.
C15_PublishedAfterPersist ==
    (webSocketService /\ lastCheck.websiteId # 0)
    => /\ lastCheck.inserted <=> lastCheck.published
       /\ lastCheck.alertEvents = lastCheck.alertRows

ValidScore(s) == s = Absent \/ s \in 0..100

\* C16: every performance score persisted or published is absent or an
\* integer between 0 and 100.
C16_ScoreInRange ==
    \A t \in Targets, o \in Owners :
        checks[t][o].inserted => ValidScore(checks[t][o].res.performanceScore)

\* The certificate is not self-signed, has a sound signature algorithm and
\* its notAfter is 10 days in the past.
ExpiredTenDays(c) ==
    /\ ~IsSelfSignedCertificate(c)
    /\ ~Includes(c.sigalg, "sha1")
    /\ ~Includes(c.sigalg, "md5")
    /\ c.valid_to = Now - 10 * HalfDaysPerDay

\* C17: a certificate that is not self-signed, of a sound algorithm and
\* expired 10 days ago is analysed as daysUntilExpiry -10, not valid,
\* grade F.
C17_ExpiredTenDaysIsF ==
    (result.by = "analyzeCertificate" /\ ExpiredTenDays(outcome))
    => /\ result.daysUntilExpiry = -10
       /\ result.certificateValid = FALSE
       /\ result.securityGrade = "F"

\* C17 as the code has it: such a certificate is analysed as
\* daysUntilExpiry -10, not valid, grade C (100 - 40 = 60).
C17_ExpiredTenDaysIsC ==
    (result.by = "analyzeCertificate" /\ ExpiredTenDays(outcome))
    => /\ result.daysUntilExpiry = -10
       /\ result.certificateValid = FALSE
       /\ result.securityGrade = "C"

C17_Witness ==
    /\ result.by = "analyzeCertificate"
    /\ ExpiredTenDays(outcome)
    /\ Now >= outcome.valid_from
    /\ result.securityGrade = "C"

\* The deductions of the grade taken one after another.
RECURSIVE Deducted(_, _)
Deducted(score, deductions) ==
    IF deductions = <<>> THEN score
    ELSE Deducted(IF deductions[1][1] THEN score - deductions[1][2] ELSE score,
                  Tail(deductions))

Letter(score) ==
    CASE score >= 90 -> "A+"
      [] score < 90 /\ score >= 80 -> "A"
      [] score < 80 /\ score >= 70 -> "B"
      [] score < 70 /\ score >= 60 -> "C"
      [] score < 60 /\ score >= 50 -> "D"
      [] score < 50 -> "F"

\* C18: the grade is the letter of 100 less 50 if self-signed, 40 if
\* expired, 20 if expiring within 30 days, a further 30 if within 7 days, 30
\* for a sha1 and 50 for an md5 algorithm; self-signed with sha1 and 5 days
\* left is F.
C18_GradeTable ==
    result.by = "analyzeCertificate"
    => LET d == result.daysUntilExpiry
           selfSigned == IsSelfSignedCertificate(outcome)
           sha1 == Includes(outcome.sigalg, "sha1")
           md5 == Includes(outcome.sigalg, "md5")
       IN /\ result.securityGrade =
               Letter(Deducted(100, << <<selfSigned, 50>>,
                                       <<d < 0, 40>>,
                                       <<d \in 0..29, 20>>,
                                       <<d \in 0..6, 30>>,
                                       <<sha1, 30>>,
                                       <<md5, 50>> >>))
          /\ (selfSigned /\ sha1 /\ d = 5) => result.securityGrade = "F"

C18_Witness ==
    /\ result.by = "analyzeCertificate"
    /\ IsSelfSignedCertificate(outcome)
    /\ Includes(outcome.sigalg, "sha1")
    /\ result.daysUntilExpiry = 5
    /\ result.securityGrade = "F"

\* The score of the table: by status code first, then by response time.
TableScore(code, ms) ==
    CASE code \in 500..599 -> 0
      [] code \in 400..499 -> 25
      [] code < 400 /\ ms < 200 -> 100
      [] code < 400 /\ ms \in 200..499 -> 90
      [] code < 400 /\ ms \in 500..999 -> 80
      [] code < 400 /\ ms \in 1000..1999 -> 70
      [] code < 400 /\ ms \in 2000..2999 -> 60
      [] code < 400 /\ ms \in 3000..4999 -> 50
      [] code < 400 /\ ms >= 5000 -> 30

\* C19: the score of a result of an HTTP response is the one of the table,
\* and a 503 received within 100 ms gives status down and score 0.
C19_ScoreTable ==
    (result.by # "none" /\ outcome.kind = "response")
    => /\ result.performanceScore = TableScore(outcome.code, outcome.ms)
       /\ (outcome.code = 503 /\ outcome.ms <= 100)
            => (result.status = "down" /\ result.performanceScore = 0)

\* C19 for MonitoringEngine alone.
C19_EngineScoreTable ==
    (result.by = "performCheck" /\ outcome.kind = "response")
    => /\ result.performanceScore = TableScore(outcome.code, outcome.ms)
       /\ (outcome.code = 503 /\ outcome.ms <= 100)
            => (result.status = "down" /\ result.performanceScore = 0)

\* C20: an alert for the status of a result fires exactly when the status
\* is down, or degraded with a response time above 10000 ms.
C20_StatusChangeCondition ==
    result.by # "none"
    => (result.alert <=>
          \/ result.status = "down"
          \/ (result.status = "degraded" /\ result.responseTime > 10000))

\* C20 for MonitoringService alone.
C20_ServiceStatusChangeCondition ==
    result.by = "performWebsiteCheck"
    => (result.alert <=>
          \/ result.status = "down"
          \/ (result.status = "degraded" /\ result.responseTime > 10000))

\* An alert is sent for the result: by the engine for its status, by the
\* service of type performance.
AlertedAsSlow(r) == IF r.by = "performCheck" THEN r.alert ELSE r.performance

\* C21: an alert for the response time fires for every result above 15000
\* ms whatever its status, and no performance alert for a result of 15000
\* ms or less.
C21_PerformanceCeiling ==
    result.by # "none"
    => /\ result.responseTime > 15000 => AlertedAsSlow(result)
       /\ result.responseTime <= 15000 => ~result.performance

\* C21 for MonitoringService alone.
C21_ServicePerformanceCeiling ==
    result.by = "performWebsiteCheck"
    => (result.performance <=> result.responseTime > 15000)

SaveStages == {"insert", "update", "lookup"}

\* The merged result of every check past its three sub-checks has the
\* status, response time and status code checkUptime gave, no TLS
\* information if checkSSL rejected or gave null, and neither metrics nor
\* score if checkPerformance gave null.
UptimeKept ==
    \A t \in Targets, o \in Owners :
        LET c == checks[t][o]
        IN c.pc \notin {"free", "probe"}
           => /\ c.res.status = c.settled.uptime.status
              /\ c.res.responseTime = c.settled.uptime.responseTime
              /\ c.res.statusCode = c.settled.uptime.statusCode
              /\ (c.settled.ssl.status = "rejected"
                    \/ c.settled.ssl.value = NoTLS)
                   => c.res.sslInfo = NoTLS
              /\ ~c.settled.performance
                   => /\ ~c.res.performanceMetrics
                      /\ c.res.performanceScore = Absent

\* Every check goes from its sub-checks to the INSERT of saveMonitorResult,
\* and from saveMonitorResult to checkAlerts on its result.
SavedAndEvaluated ==
    \A t \in Targets, o \in Owners :
        LET c == checks[t][o]
            d == checks'[t][o]
        IN /\ (c.pc = "probe" /\ d.pc # "probe") => d.pc = "insert"
           /\ (c.pc \in SaveStages /\ d.pc \notin SaveStages)
                => IF ServiceAlerts(c.res) = <<>>
                   THEN d.pc = "free"
                   ELSE d.pc = "alert" /\ d.alerts = ServiceAlerts(c.res)

\* C23: a rejection or null of checkSSL or checkPerformance leaves the
\* uptime part of the merged result as checkUptime gave it and the field of
\* the failed check absent, and the result is still saved and evaluated for
\* alerts.
C23_SubCheckFailureKeepsUptime ==
    []UptimeKept /\ [][SavedAndEvaluated]_vars

\* An up result of a check whose TLS and performance checks both failed has
\* been inserted.
C23_Witness ==
    \E t \in Targets, o \in Owners :
        /\ checks[t][o].pc = "update"
        /\ checks[t][o].settled.ssl.status = "rejected"
        /\ ~checks[t][o].settled.performance
        /\ checks[t][o].res.status = "up"
        /\ checks[t][o].inserted

\* C24: a step in which the query of a refresh throws leaves isRunning,
\* activeChecks, every timer and check chain and the refresh timers as they
\* were.
C24_FailedLoadKeepsSchedule ==
    [][(\E i \in 1..Len(loads) : loads[i] = "refresh" /\ LoadDone(i, FALSE))
        => UNCHANGED <<isRunning, activeChecks, chains, refreshTimers>>]_vars

\* The refresh interval has just run again and its load is over, and the
\* timer activeChecks holds for a target has run part of its delay: the
\* refresh did not reschedule the target.
C24_Witness ==
    \E t \in Targets, k \in Slots :
        /\ isRunning
        /\ loads = <<>>
        /\ refreshTimers = <<Ticks(RefreshMs)>>
        /\ activeChecks[t] = k
        /\ chains[t][k].pc = "timer"
        /\ chains[t][k].rem > 0
        /\ chains[t][k].rem < Ticks(TimerDelayMs(chains[t][k].check_interval))

\* The catch of sendAlert wrote its row: the row is the newest of
\* alert_history and its status is 'failed'; the try that threw wrote none.
FailedInsteadOfSent ==
    \A t \in Targets, k \in Slots :
        /\ (chains[t][k].pc = "insertSent" /\ chains'[t][k].pc = "insertFailed")
           => alert_history' = alert_history
        /\ (chains[t][k].pc = "insertFailed" /\ chains'[t][k].pc # "insertFailed"
            /\ alert_history' # alert_history)
           => /\ Len(alert_history') = Len(alert_history) + 1
              /\ SubSeq(alert_history', 1, Len(alert_history)) = alert_history
              /\ alert_history'[Len(alert_history')].status = "failed"
              /\ alert_history'[Len(alert_history')].website_id = t

\* A non-up result whose INSERT returned or threw has its rules queried.
EvaluatedAgain ==
    \A t \in Targets, k \in Slots :
        (chains[t][k].pc = "save" /\ chains'[t][k].pc # "save"
         /\ chains[t][k].status # "up")
        => chains'[t][k].pc = "alertConfigs"

\* The rows of a target and alert type inside the window that say 'sent'.
RecentSentRowsOf(t, alert_type) ==
    {i \in RecentRowsOf(t, alert_type) : alert_history[i].status = "sent"}

\* The alert type of the rule chain k of target t is at.
RuleType(t, k) == chains[t][k].rows[chains[t][k].idx].alert_type

NoCertificate ==
    outcome.url # "https" \/ result.handshake \in {"error", "timeout"}

\* C26 as stated: an SSLMonitor.checkSSL that met a URL that is not https,
\* a failed or timed-out handshake or a throwing INSERT returned the invalid
\* result, and its caller raised no alert for it.
C26_InvalidResultOnEveryFailure ==
    (result.by = "SSLMonitor" /\ result.pc = "returned"
     /\ (NoCertificate \/ result.saveThrew))
    => /\ result.value = CreateInvalidResult
       /\ ~result.alert

\* C26: SSLMonitor.checkSSL returns the invalid result exactly when the URL
\* is not https or does not parse or the handshake failed or timed out, and
\* its caller raises no alert for it; a throwing INSERT changes nothing of
\* the result returned, which after a completed handshake is the analysis of
\* the certificate.
C26_InvalidResultWithoutCertificate ==
    (result.by = "SSLMonitor" /\ result.pc = "returned")
    => /\ result.value = CreateInvalidResult <=> NoCertificate
       /\ result.value = CreateInvalidResult => ~result.alert
       /\ ~NoCertificate
            => result.value = AnalyzeCertificateResult(outcome.certificate)
       /\ result.saveThrew => result.stored = 0

\* The handshake timed out, the INSERT of the invalid result threw, and the
\* invalid result was returned.
C26_Witness ==
    /\ result.by = "SSLMonitor"
    /\ result.pc = "returned"
    /\ result.handshake = "timeout"
    /\ result.saveThrew
    /\ result.value = CreateInvalidResult

\* C27: at most one setInterval of start() is alive, and none while the
\* engine is stopped.
C27_OneRefreshTimer ==
    /\ Len(refreshTimers) <= 1
    /\ ~isRunning => refreshTimers = <<>>

\* getMonitoringStatus().activeWebsites: the size of monitoringIntervals.
ActiveWebsites == Cardinality({t \in Targets : monitoringIntervals[t] # "none"})

\* C28: while the service is not running, monitoringIntervals is empty.
C28_StoppedMeansNoIntervals ==
    ~serviceIsRunning => ActiveWebsites = 0

\* C29: removeWebsiteMonitoring(id) leaves no interval of id alive, and a
\* startWebsiteMonitoring(id) that was awaiting its initial check when the
\* removal returned creates none afterwards, so that no check of id starts
\* any more.
C29_RemovedStaysRemoved ==
    [][\A t \in Targets :
         /\ RemoveWebsiteMonitoring(t) => liveIntervals'[t] = 0
         /\ (\E o \in Starters : checks[t][o].removed)
            => liveIntervals'[t] <= liveIntervals[t]]_vars

\* The open sockets of a user.
OpenSockets(u) ==
    {s \in Sockets : outcome[s].userId = u /\ outcome[s].state = "open"}

\* C30: connectedUsers has an entry for a user exactly when the user has an
\* open socket, the entry holds exactly the ids of the user's open sockets
\* and is never empty, getConnectedUsersCount() is the number of users with
\* an open socket, and isUserConnected(u) says whether u has one.
C30_ConnectedUsersAreOpenSockets ==
    /\ \A u \in Users :
         /\ result.connectedUsers[u].present <=> OpenSockets(u) # {}
         /\ result.connectedUsers[u].sockets = OpenSockets(u)
         /\ IsUserConnected(u) <=> OpenSockets(u) # {}
    /\ GetConnectedUsersCount
         = Cardinality({u \in Users : OpenSockets(u) # {}})

\* A user whose two sockets have both disconnected has no entry, while
\* another user is still connected.
C30_Witness ==
    \E u \in Users, v \in Users :
        /\ Cardinality({s \in Sockets : outcome[s].userId = u
                                         /\ outcome[s].state = "closed"}) = 2
        /\ ~IsUserConnected(u)
        /\ IsUserConnected(v)
        /\ GetConnectedUsersCount = 1

====
